---- MODULE Spec2Model ----
(***************************************************************************)
(* pytest-reporter, src/pytest_reporter/plugin.py: the plugin that builds  *)
(* one TestRun per test item from the host's phase reports, captures the   *)
(* log records of each phase, and at session end renders the configured    *)
(* templates to the configured report paths through six extension points.  *)
(*                                                                         *)
(* Python objects are modelled with their identity where the code shares   *)
(* them: TestRun objects live in `runs` and list objects of the log        *)
(* handler in `lists`; `_active`, `test_runs`, `_buffer` and a phase's     *)
(* log_records hold references (indices) into them.  Dynamically typed     *)
(* values the code inspects with isinstance carry their type as a tag.     *)
(***************************************************************************)
EXTENDS Integers, Sequences, FiniteSets, TLC

VARIABLES
  pc,                \* where the host runner is in the session's lifecycle
  host,              \* the host's own position: current item, reports made for it,
                     \* what pytest_report_teststatus answered for the last one
  config,            \* the config object: parsed options, slaveinput, collaborators
  pluginmanager,     \* names of the registered plugins, in registration order
  template_context,  \* config.template_context (test_runs is a reference)
  test_runs,         \* the list object config.template_context["test_runs"]
  runs,              \* heap of TestRun objects, by identity
  lists,             \* heap of the list objects LogHandler allocates
  _active,           \* ReportGenerator._active: 0 is None, else a TestRun
  _buffer,           \* LogHandler._buffer: 0 before construction, else a list
  handlers,          \* the handlers installed on the root logger
  fs,                \* the file system under the working directory
  fs0,               \* history: the file system the session started with
  template_dirs,     \* pytest_sessionfinish's local template_dirs
  env,               \* pytest_sessionfinish's local env
  ctx,               \* pytest_sessionfinish's local ctx
  calls,             \* what pytest_sessionfinish invoked, in order
  error,             \* the exception that left a handler, "" when none
  logged,            \* history: every record handed to the root logger
  built,             \* history: every TestPhase constructed, in order
  finished           \* history: the items whose logfinish was signalled

vars == <<pc, host, config, fs0, pluginmanager, template_context, test_runs, runs,
          lists, _active, _buffer, handlers, fs, template_dirs, env, ctx,
          calls, error, logged, built, finished>>

pluginVars == <<template_context, test_runs, runs, lists, _active, _buffer>>
renderVars == <<fs, template_dirs, env, ctx, calls>>

(***************************************************************************)
(* Bounds of the explored sessions.                                        *)
(***************************************************************************)
MaxTests == 2
MaxPhases == 2
MaxEmits == 2
MaxAppends == 3
MaxTemplates == 2
MaxPaths == 2
MaxPlugins == 2

(***************************************************************************)
(* Python values.                                                          *)
(***************************************************************************)
None == [type |-> "None"]
PyStr(s) == [type |-> "str", val |-> s]
PyTuple(t) == [type |-> "tuple", val |-> t]
PyList(l) == [type |-> "list", val |-> l]
PyDict(d) == [type |-> "dict", val |-> d]
EmptyDict == <<>>

Min(a, b) == IF a <= b THEN a ELSE b

SeqsUpTo(S, n) == UNION {[1..k -> S] : k \in 0..n}

\* an update that keeps the value a key already has
DictUpdate_keep(a, b) ==
  [k \in DOMAIN a \cup DOMAIN b |-> IF k \in DOMAIN a THEN a[k] ELSE b[k]]

\* dict.update: every key of b, and the keys of a that b does not have
DictUpdate(a, b) ==
  [k \in DOMAIN a \cup DOMAIN b |-> IF k \in DOMAIN b THEN b[k] ELSE a[k]]

(***************************************************************************)
(* TestPhase.__init__.  res is what the host's pytest_report_teststatus    *)
(* call returned: a (category, letter, word) triple, or None when no       *)
(* implementation answered.  Unpacking None raises TypeError.              *)
(***************************************************************************)
StatusTriple(category, letter, word) ==
  [type |-> "tuple", category |-> category, letter |-> letter, word |-> word]

TestPhaseRaises(res) == res.type = "None"

\* a phase that takes the label of a (label, style) word and drops the style
TestPhase_no_style(call, report, log_records, res) ==
  [call |-> call,
   report |-> report,
   log_records |-> log_records,
   category |-> res.category,
   letter |-> res.letter,
   word |-> IF res.word.type = "tuple" THEN res.word.val[1] ELSE res.word.val,
   style |-> EmptyDict]

TestPhase(call, report, log_records, res) ==
  [call |-> call,
   report |-> report,
   log_records |-> log_records,
   category |-> res.category,
   letter |-> res.letter,
   word |-> IF res.word.type = "tuple" THEN res.word.val[1] ELSE res.word.val,
   style |-> IF res.word.type = "tuple" THEN res.word.val[2] ELSE EmptyDict]

(***************************************************************************)
(* TestRun.                                                                *)
(***************************************************************************)
TestRun(item) ==
  [item |-> item, phases |-> <<>>, category |-> "", letter |-> "",
   word |-> "", style |-> EmptyDict]

\* append_phase with `and` where the code has `or`
append_phase_and(self, phase) ==
  IF phase.letter # "" /\ phase.word # ""
    THEN [self EXCEPT !.phases = Append(@, phase),
                      !.category = phase.category,
                      !.letter = phase.letter,
                      !.word = phase.word,
                      !.style = phase.style]
    ELSE [self EXCEPT !.phases = Append(@, phase)]

\* append_phase without the test of letter and word
append_phase_always(self, phase) ==
  [self EXCEPT !.phases = Append(@, phase),
               !.category = phase.category,
               !.letter = phase.letter,
               !.word = phase.word,
               !.style = phase.style]

append_phase(self, phase) ==
  IF phase.letter # "" \/ phase.word # ""
    THEN [self EXCEPT !.phases = Append(@, phase),
                      !.category = phase.category,
                      !.letter = phase.letter,
                      !.word = phase.word,
                      !.style = phase.style]
    ELSE [self EXCEPT !.phases = Append(@, phase)]

(***************************************************************************)
(* LogHandler.  emit appends to the list object _buffer refers to;         *)
(* pop_records hands that list object out and makes _buffer refer to a     *)
(* newly allocated empty list.                                             *)
(***************************************************************************)
\* an emit that buffers the record twice
LogHandler_emit_twice(record) ==
  lists' = [lists EXCEPT ![_buffer] = Append(Append(@, record), record)]

\* an emit that puts the record in front of the buffer
LogHandler_emit_prepend(record) == lists' = [lists EXCEPT ![_buffer] = <<record>> \o @]

LogHandler_emit(record) ==
  lists' = [lists EXCEPT ![_buffer] = Append(@, record)]

\* pop_records that empties the buffer in place and hands that same list out
pop_records_clear ==
  [records |-> _buffer, _buffer |-> _buffer, lists |-> [lists EXCEPT ![_buffer] = <<>>]]

\* pop_records that hands the buffer out without replacing it
pop_records_keep ==
  [records |-> _buffer, _buffer |-> _buffer, lists |-> lists]

pop_records ==
  [records |-> _buffer, _buffer |-> Len(lists) + 1, lists |-> Append(lists, <<>>)]

(***************************************************************************)
(* The plugin registry.  A plugin is named and carries what it answers to  *)
(* the template-dir and context extension points (None: it does not        *)
(* answer).  The plugin module itself answers both from the config.        *)
(***************************************************************************)
Plugin(name, template_dir, context) ==
  [name |-> name, template_dir |-> template_dir, context |-> context]

PluginModule == Plugin("pytest_reporter", None, None)

registered == \E i \in DOMAIN pluginmanager : pluginmanager[i].name = "ReportGenerator"

(***************************************************************************)
(* pytest_configure.                                                       *)
(***************************************************************************)
\* the registration test without the worker check
ShouldRegister_any_role(cfg) == cfg.report_path # <<>>

ShouldRegister(cfg) == cfg.report_path # <<>> /\ ~cfg.slaveinput

pytest_configure ==
  /\ template_context' = [config |-> "<config>", test_runs |-> "<test_runs>"]
  /\ test_runs' = <<>>
  /\ IF ShouldRegister(config)
       THEN /\ _active' = 0
            /\ lists' = Append(lists, <<>>)
            /\ _buffer' = Len(lists) + 1
            /\ pluginmanager' = pluginmanager \o
                 <<Plugin("ReportGenerator", None, None),
                   Plugin("jinja2", None, None),
                   Plugin("mako", None, None)>>
       ELSE UNCHANGED <<_active, lists, _buffer, pluginmanager>>

(***************************************************************************)
(* ReportGenerator: the handlers of the test-execution events.             *)
(***************************************************************************)
pytest_sessionstart == handlers' = handlers \cup {"LogHandler"}

\* pytest_runtest_protocol that keeps the TestRun it already has
pytest_runtest_protocol_reuse(item) ==
  IF _active = 0
    THEN runs' = Append(runs, TestRun(item)) /\ _active' = Len(runs) + 1
    ELSE UNCHANGED <<runs, _active>>

pytest_runtest_protocol(item) ==
  /\ runs' = Append(runs, TestRun(item))
  /\ _active' = Len(runs) + 1

pytest_runtest_makereport(item, call, res) ==
  LET report == [nodeid |-> item, when |-> call]
      pop == pop_records
  IN /\ lists' = pop.lists
     /\ _buffer' = pop._buffer
     /\ IF TestPhaseRaises(res)
          THEN /\ error' = "TypeError"
               /\ UNCHANGED <<runs, built>>
          ELSE LET phase == TestPhase(call, report, pop.records, res)
               IN /\ runs' = [runs EXCEPT ![_active] = append_phase(@, phase)]
                  /\ built' = Append(built, [item |-> item, phase |-> phase])
                  /\ UNCHANGED error

\* a logfinish that rebinds test_runs to a list of the finished run alone
pytest_runtest_logfinish_rebind == test_runs' = <<_active>>

pytest_runtest_logfinish == test_runs' = Append(test_runs, _active)

\* a session end that leaves the handler on the root logger
removeHandler_keep == handlers' = handlers

removeHandler == handlers' = handlers \ {"LogHandler"}

(***************************************************************************)
(* Extension-point dispatch.  The host calls the implementations of a hook *)
(* last registered first, those marked tryfirst before the others, and     *)
(* returns the answers that are not None in call order.  The plugin        *)
(* module's pytest_reporter_template_dir is marked tryfirst.               *)
(***************************************************************************)
Reverse(s) == [i \in 1..Len(s) |-> s[Len(s) + 1 - i]]

IsTryFirst(hook, plugin) == hook = "template_dir" /\ plugin.name = "pytest_reporter"

HookCallOrder(hook) ==
  LET first(p) == IsTryFirst(hook, p)
      rest(p) == ~IsTryFirst(hook, p)
  IN Reverse(SelectSeq(pluginmanager, first)) \o Reverse(SelectSeq(pluginmanager, rest))

\* pytest_reporter_template_dir and pytest_reporter_context of the plugin
\* module; a collaborator answers what its record says
pytest_reporter_template_dir(plugin) ==
  IF plugin.name = "pytest_reporter" THEN PyList(config.template_dir)
  ELSE plugin.template_dir

pytest_reporter_context(plugin) ==
  IF plugin.name = "pytest_reporter" THEN PyDict(template_context)
  ELSE plugin.context

HookResults(hook) ==
  LET order == HookCallOrder(hook)
      answers == [i \in 1..Len(order) |->
                    IF hook = "template_dir" THEN pytest_reporter_template_dir(order[i])
                    ELSE pytest_reporter_context(order[i])]
      answered(a) == a.type # "None"
  IN SelectSeq(answers, answered)

(***************************************************************************)
(* pytest_sessionfinish, lines 122-137: template directories, environment, *)
(* context.                                                                *)
(***************************************************************************)
\* a flattening that also extends with the elements of a tuple
RECURSIVE FlattenDirs_sequences(_)
FlattenDirs_sequences(answers) ==
  IF answers = <<>> THEN <<>>
  ELSE LET dirs == Head(answers)
       IN (IF dirs.type \in {"list", "tuple"}
             THEN [i \in 1..Len(dirs.val) |-> PyStr(dirs.val[i])]
             ELSE <<dirs>>) \o FlattenDirs_sequences(Tail(answers))

RECURSIVE FlattenDirs(_)
FlattenDirs(answers) ==
  IF answers = <<>> THEN <<>>
  ELSE LET dirs == Head(answers)
       IN (IF dirs.type = "list"
             THEN [i \in 1..Len(dirs.val) |-> PyStr(dirs.val[i])]
             ELSE <<dirs>>) \o FlattenDirs(Tail(answers))

RECURSIVE MergeContexts(_)
MergeContexts(contexts) ==
  IF contexts = <<>> THEN EmptyDict
  ELSE DictUpdate(MergeContexts(SubSeq(contexts, 1, Len(contexts) - 1)),
                  contexts[Len(contexts)].val)

\* the renderer adapters: the adapter of the selected engine answers
\* make-env; render fails without an environment or for an unknown template
KnownTemplates == {"t1", "t2"}

pytest_reporter_make_env(dirs, cfg) ==
  IF cfg.template_engine \in cfg.engines
    THEN [type |-> "env", engine |-> cfg.template_engine, template_dirs |-> dirs]
    ELSE None

pytest_reporter_render(e, template, context) ==
  IF e.type = "None" THEN [type |-> "raise", exc |-> "UnavailableEnvironment"]
  ELSE IF template \notin KnownTemplates THEN [type |-> "raise", exc |-> "TemplateNotFound"]
  ELSE [type |-> "str", val |-> <<template>>]

(***************************************************************************)
(* The file system: Path.parent, Path.mkdir(parents=True, exist_ok=True)   *)
(* and Path.write_text.                                                    *)
(***************************************************************************)
Nodes == {".", "r", "out", "out/sub", "out/sub/r"}

Parent(p) ==
  CASE p = "out/sub/r" -> "out/sub"
    [] p = "out/sub" -> "out"
    [] OTHER -> "."

Absent == [kind |-> "absent", content |-> <<>>]
Dir == [kind |-> "dir", content |-> <<>>]
File(content) == [kind |-> "file", content |-> content]

RECURSIVE Mkdir(_, _)
Mkdir(f, p) ==
  IF f[p].kind = "dir" THEN [ok |-> TRUE, fs |-> f]
  ELSE IF f[p].kind = "file" THEN [ok |-> FALSE, fs |-> f]
  ELSE LET up == Mkdir(f, Parent(p))
       IN IF up.ok THEN [ok |-> TRUE, fs |-> [up.fs EXCEPT ![p] = Dir]]
          ELSE [ok |-> FALSE, fs |-> f]

\* write_text that appends to the file it finds
WriteText_append(f, p, data) ==
  IF f[p].kind = "dir" \/ f[Parent(p)].kind # "dir" THEN [ok |-> FALSE, fs |-> f]
  ELSE [ok |-> TRUE, fs |-> [f EXCEPT ![p] = File(f[p].content \o data)]]

WriteText(f, p, data) ==
  IF f[p].kind = "dir" \/ f[Parent(p)].kind # "dir" THEN [ok |-> FALSE, fs |-> f]
  ELSE [ok |-> TRUE, fs |-> [f EXCEPT ![p] = File(data)]]

(***************************************************************************)
(* pytest_sessionfinish, lines 138-150: one (template, path) pair after    *)
(* the other; an exception leaves the handler at the step that raised.     *)
(***************************************************************************)
\* a pairing that walks all the templates
Zip_templates(a, b) == [i \in 1..Len(a) |-> <<a[i], b[Min(i, Len(b))]>>]

Zip(a, b) == [i \in 1..Min(Len(a), Len(b)) |-> <<a[i], b[i]>>]

\* an argument a call does not take
NotPassed == [type |-> "absent"]

Call(op, arg, ok) == [op |-> op, arg |-> arg, ok |-> ok, env |-> NotPassed,
                      context |-> NotPassed]

\* a call that is handed the environment and the context as well
CallOn(op, arg, ok, e, c) == [Call(op, arg, ok) EXCEPT !.env = e, !.context = c]

\* a pair whose finish notification is fired before the file is written
RenderPair_finish_first(st, template, path, e, c) ==
  LET content == pytest_reporter_render(e, template, c)
  IN IF content.type = "raise"
       THEN [st EXCEPT !.calls = Append(@, CallOn("render", template, FALSE, e, c)),
                       !.error = content.exc]
     ELSE
       LET c1 == Append(st.calls, CallOn("render", template, TRUE, e, c))
           target == path
           md == Mkdir(st.fs, Parent(target))
       IN IF ~md.ok
            THEN [st EXCEPT !.calls = Append(c1, Call("mkdir", Parent(target), FALSE)),
                            !.error = "FileExistsError"]
          ELSE
            LET c2 == Append(Append(c1, Call("mkdir", Parent(target), TRUE)),
                             CallOn("finish", path, TRUE, e, c))
                wr == WriteText(md.fs, target, content.val)
            IN IF ~wr.ok
                 THEN [fs |-> md.fs,
                       calls |-> Append(c2, Call("write", path, FALSE)),
                       error |-> "IsADirectoryError"]
                 ELSE [fs |-> wr.fs,
                       calls |-> Append(c2, Call("write", path, TRUE)),
                       error |-> st.error]

RenderPair(st, template, path, e, c) ==
  LET content == pytest_reporter_render(e, template, c)
  IN IF content.type = "raise"
       THEN [st EXCEPT !.calls = Append(@, CallOn("render", template, FALSE, e, c)),
                       !.error = content.exc]
     ELSE
       LET c1 == Append(st.calls, CallOn("render", template, TRUE, e, c))
           target == path
           md == Mkdir(st.fs, Parent(target))
       IN IF ~md.ok
            THEN [st EXCEPT !.calls = Append(c1, Call("mkdir", Parent(target), FALSE)),
                            !.error = "FileExistsError"]
          ELSE
            LET c2 == Append(c1, Call("mkdir", Parent(target), TRUE))
                wr == WriteText(md.fs, target, content.val)
            IN IF ~wr.ok
                 THEN [fs |-> md.fs,
                       calls |-> Append(c2, Call("write", path, FALSE)),
                       error |-> "IsADirectoryError"]
                 ELSE [fs |-> wr.fs,
                       calls |-> Append(Append(c2, Call("write", path, TRUE)),
                                        CallOn("finish", path, TRUE, e, c)),
                       error |-> st.error]

\* a loop that goes on to the next pair after a failure
RECURSIVE RenderPairs_continue(_, _, _, _)
RenderPairs_continue(st, pairs, e, c) ==
  IF pairs = <<>> THEN st
  ELSE RenderPairs_continue(RenderPair(st, Head(pairs)[1], Head(pairs)[2], e, c),
                            Tail(pairs), e, c)

RECURSIVE RenderPairs(_, _, _, _)
RenderPairs(st, pairs, e, c) ==
  IF pairs = <<>> \/ st.error # "" THEN st
  ELSE RenderPairs(RenderPair(st, Head(pairs)[1], Head(pairs)[2], e, c),
                   Tail(pairs), e, c)

\* a pipeline that collects the contexts before it builds the environment
pytest_sessionfinish_render_context_first ==
  LET dirs == FlattenDirs(HookResults("template_dir"))
      e == pytest_reporter_make_env(dirs, config)
      c == MergeContexts(HookResults("context"))
      head == <<Call("context", "", TRUE), Call("template_dir", "", TRUE),
                Call("make_env", "", TRUE),
                CallOn("modify_env", "", TRUE, e, NotPassed)>>
      st == RenderPairs([fs |-> fs, calls |-> head, error |-> ""],
                        Zip(config.template, config.report_path), e, c)
  IN /\ template_dirs' = dirs
     /\ env' = e
     /\ ctx' = c
     /\ fs' = st.fs
     /\ calls' = st.calls
     /\ error' = st.error

pytest_sessionfinish_render ==
  LET dirs == FlattenDirs(HookResults("template_dir"))
      e == pytest_reporter_make_env(dirs, config)
      c == MergeContexts(HookResults("context"))
      head == <<Call("template_dir", "", TRUE), Call("make_env", "", TRUE),
                CallOn("modify_env", "", TRUE, e, NotPassed),
                Call("context", "", TRUE)>>
      st == RenderPairs([fs |-> fs, calls |-> head, error |-> ""],
                        Zip(config.template, config.report_path), e, c)
  IN /\ template_dirs' = dirs
     /\ env' = e
     /\ ctx' = c
     /\ fs' = st.fs
     /\ calls' = st.calls
     /\ error' = st.error

(***************************************************************************)
(* The host runner.  It configures, starts the session, runs the items one *)
(* after the other (protocol, the phase reports, logfinish) and ends the   *)
(* session; it calls a handler of ReportGenerator only when the plugin is  *)
(* registered.  An exception that leaves pytest_runtest_makereport is an   *)
(* internal error: the host runs no further test and ends the session.     *)
(* A report's phase follows setup, call, teardown.                         *)
(***************************************************************************)
Whens == <<"setup", "call", "teardown">>

When(k) == Whens[((k - 1) % Len(Whens)) + 1]

HostConfigure ==
  /\ pc = "new"
  /\ pytest_configure
  /\ pc' = "configured"
  /\ UNCHANGED <<host, config, fs0, runs, handlers, renderVars, error, logged, built, finished>>

HostSessionStart ==
  /\ pc = "configured"
  /\ IF registered THEN pytest_sessionstart ELSE UNCHANGED handlers
  /\ pc' = "session"
  /\ UNCHANGED <<host, config, fs0, pluginmanager, pluginVars, renderVars, error,
                 logged, built, finished>>

HostRunTest(maxTests) ==
  /\ pc = "session"
  /\ host.item < maxTests
  /\ host' = [item |-> host.item + 1, when |-> 0, res |-> None]
  /\ IF registered THEN pytest_runtest_protocol(host.item + 1)
     ELSE UNCHANGED <<runs, _active>>
  /\ pc' = "test"
  /\ UNCHANGED <<config, fs0, pluginmanager, template_context, test_runs, lists, _buffer,
                 handlers, renderVars, error, logged, built, finished>>

HostMakeReport(res, maxPhases) ==
  /\ pc = "test"
  /\ host.when < maxPhases
  /\ host' = [host EXCEPT !.when = @ + 1, !.res = res]
  /\ IF registered THEN pytest_runtest_makereport(host.item, When(host.when + 1), res)
     ELSE UNCHANGED <<lists, _buffer, runs, built, error>>
  /\ pc' = IF error' # error THEN "crashed" ELSE "test"
  /\ UNCHANGED <<config, fs0, pluginmanager, template_context, test_runs, _active,
                 handlers, renderVars, logged, finished>>

HostLogFinish ==
  /\ pc = "test"
  /\ IF registered THEN pytest_runtest_logfinish ELSE UNCHANGED test_runs
  /\ finished' = Append(finished, host.item)
  /\ pc' = "session"
  /\ UNCHANGED <<host, config, fs0, pluginmanager, template_context, runs, lists, _active,
                 _buffer, handlers, renderVars, error, logged, built>>

\* pytest_sessionfinish, line 120: the handler is removed first
HostSessionFinish ==
  /\ pc \in {"session", "crashed"}
  /\ IF registered THEN removeHandler /\ pc' = "rendering"
     ELSE UNCHANGED handlers /\ pc' = "finished"
  /\ UNCHANGED <<host, config, fs0, pluginmanager, pluginVars, renderVars, error,
                 logged, built, finished>>

\* pytest_sessionfinish, lines 121-150
HostRender ==
  /\ pc = "rendering"
  /\ pytest_sessionfinish_render
  /\ pc' = IF error' # "" THEN "failed" ELSE "finished"
  /\ UNCHANGED <<host, config, fs0, pluginmanager, pluginVars, handlers, logged, built,
                 finished>>

\* the program under test (or anything else) logs a record: the root logger
\* hands it to the handlers installed at that moment
AppLog(maxEmits) ==
  /\ Len(logged) < maxEmits
  /\ logged' = Append(logged, [delivered |-> "LogHandler" \in handlers,
                               window |-> Len(built), at |-> pc])
  /\ IF "LogHandler" \in handlers THEN LogHandler_emit(Len(logged) + 1)
     ELSE UNCHANGED lists
  /\ UNCHANGED <<pc, host, config, fs0, pluginmanager, template_context, test_runs, runs,
                 _active, _buffer, handlers, renderVars, error, built, finished>>

(***************************************************************************)
(* Sessions: the command line, the collaborators and the file system the   *)
(* session starts with.                                                    *)
(***************************************************************************)
EmptyFS == [n \in Nodes |-> IF n = "." THEN Dir ELSE Absent]

BaseConfig ==
  [slaveinput |-> FALSE, report_path |-> <<"r">>, template |-> <<"t1">>,
   template_dir |-> <<".">>, template_engine |-> "jinja2",
   engines |-> {"jinja2", "mako"}, collaborators |-> <<>>]

InitWith(sessions) ==
  \E s \in sessions :
    /\ config = s.config
    /\ fs = s.fs
    /\ fs0 = s.fs
    /\ pluginmanager = <<PluginModule>> \o s.config.collaborators
    /\ pc = "new"
    /\ host = [item |-> 0, when |-> 0, res |-> None]
    /\ template_context = EmptyDict
    /\ test_runs = <<>>
    /\ runs = <<>>
    /\ lists = <<>>
    /\ _active = 0
    /\ _buffer = 0
    /\ handlers = {}
    /\ template_dirs = <<>>
    /\ env = None
    /\ ctx = EmptyDict
    /\ calls = <<>>
    /\ error = ""
    /\ logged = <<>>
    /\ built = <<>>
    /\ finished = <<>>

(***************************************************************************)
(* Spec: test execution with log capture, in primary and worker sessions,  *)
(* with and without report paths.                                          *)
(***************************************************************************)
RunSessions ==
  {[config |-> [BaseConfig EXCEPT !.slaveinput = s, !.report_path = rp], fs |-> EmptyFS] :
     s \in BOOLEAN, rp \in {<<>>, <<"r">>}}

RunStatuses ==
  {None,
   StatusTriple("", "", PyStr("")),
   StatusTriple("passed", ".", PyStr("PASSED"))}

Init == InitWith(RunSessions)

Next ==
  \/ HostConfigure
  \/ HostSessionStart
  \/ HostRunTest(MaxTests)
  \/ \E res \in RunStatuses : HostMakeReport(res, MaxPhases)
  \/ HostLogFinish
  \/ HostSessionFinish
  \/ HostRender

Spec == Init /\ [][Next]_vars

(***************************************************************************)
(* SpecLog: log capture during test execution in a registered session.     *)
(***************************************************************************)
\* one session whose template renders and one whose template is not found
LogSessions ==
  {[config |-> [BaseConfig EXCEPT !.template = <<t>>], fs |-> EmptyFS] :
     t \in {"t1", "missing"}}

LogStatuses == {None, StatusTriple("passed", ".", PyStr("PASSED"))}

InitLog == InitWith(LogSessions)

NextLog ==
  \/ HostConfigure
  \/ HostSessionStart
  \/ HostRunTest(MaxTests)
  \/ \E res \in LogStatuses : HostMakeReport(res, MaxPhases)
  \/ HostLogFinish
  \/ HostSessionFinish
  \/ HostRender
  \/ AppLog(MaxEmits)

SpecLog == InitLog /\ [][NextLog]_vars

(***************************************************************************)
(* SpecStatus: the phases of one test, with every shape of status the      *)
(* classification can answer.                                              *)
(***************************************************************************)
AllStatuses ==
  {None,
   StatusTriple("", "", PyStr("")),
   StatusTriple("skipped", "", PyStr("")),
   StatusTriple("passed", ".", PyStr("PASSED")),
   StatusTriple("xfailed", "x", PyStr("")),
   StatusTriple("rerun", "", PyStr("RERUN")),
   StatusTriple("failed", "F", PyTuple(<<"FAILED", [red |-> TRUE]>>)),
   StatusTriple("deselected", "", PyTuple(<<"", [bold |-> TRUE]>>))}

NextStatus ==
  \/ HostConfigure
  \/ HostSessionStart
  \/ HostRunTest(1)
  \/ \E res \in AllStatuses : HostMakeReport(res, MaxAppends)
  \/ HostLogFinish

SpecStatus == InitLog /\ [][NextStatus]_vars

(***************************************************************************)
(* SpecRender: the end of a session that ran no test, over the command     *)
(* lines, the collaborators and the file systems it can meet.              *)
(***************************************************************************)
OldFile == File(<<"old">>)

AllFS ==
  {f \in [Nodes -> {Absent, Dir, OldFile}] :
     /\ f["."] = Dir
     /\ \A n \in Nodes \ {"."} : f[n] # Absent => f[Parent(n)] = Dir}

PairConfigs ==
  {[BaseConfig EXCEPT !.template = t, !.report_path = rp, !.engines = e] :
     t \in SeqsUpTo({"t1", "t2", "missing"}, MaxTemplates),
     rp \in SeqsUpTo({"r", "out/sub/r"}, MaxPaths),
     e \in {{"jinja2", "mako"}, {"mako"}}}

Collaborators ==
  {Plugin("collaborator", td, cx) :
     td \in {None, PyStr("d1"), PyList(<<"d1", "d2">>), PyTuple(<<"d1", "d2">>)},
     cx \in {None, PyDict([x |-> "1"]), PyDict([x |-> "2", y |-> "3"])}}

HookConfigs ==
  {[BaseConfig EXCEPT !.collaborators = c, !.template_dir = td] :
     c \in SeqsUpTo(Collaborators, MaxPlugins),
     td \in {<<".">>, <<"d1", "d1">>}}

RenderSessions ==
  {[config |-> c, fs |-> f] : c \in PairConfigs, f \in AllFS}
    \cup {[config |-> c, fs |-> EmptyFS] : c \in HookConfigs}

InitRender == InitWith(RenderSessions)

NextRender ==
  \/ HostConfigure
  \/ HostSessionStart
  \/ HostSessionFinish
  \/ HostRender

SpecRender == InitRender /\ [][NextRender]_vars

(***************************************************************************)
(* Properties.                                                             *)
(***************************************************************************)
Range(s) == {s[i] : i \in DOMAIN s}

Status(x) == <<x.category, x.letter, x.word, x.style>>

InitialStatus == <<"", "", "", EmptyDict>>

\* the status a sequence of phases leaves: that of the last phase whose
\* letter or word is not empty, the initial one when there is none
StatusAfter(phases) ==
  LET sig == {i \in 1..Len(phases) : phases[i].letter # "" \/ phases[i].word # ""}
  IN IF sig = {} THEN InitialStatus
     ELSE Status(phases[CHOOSE i \in sig : \A j \in sig : j <= i])

\* the phases built for an item, in the order they were built
PhasesOf(item) ==
  LET mine(b) == b.item = item
      bs == SelectSeq(built, mine)
  IN [i \in 1..Len(bs) |-> bs[i].phase]

\* C1: after every append_phase on a TestRun that started fresh, its
\* (category, letter, word, style) are those of the last appended phase whose
\* letter or word is non-empty, and the initial empty values when no appended
\* phase has one; a phase with only a category changes nothing.
C1_LastSignificantPhaseWins ==
  \A r \in 1..Len(runs) : Status(runs[r]) = StatusAfter(runs[r].phases)

C1_Witness ==
  \E r \in 1..Len(runs) :
    LET ph == runs[r].phases
    IN /\ Len(ph) >= 3
       /\ ph[2].word = "FAILED"
       /\ ph[3].category = "skipped" /\ ph[3].letter = "" /\ ph[3].word = ""
       /\ runs[r].category = "failed"
       /\ runs[r].style = [red |-> TRUE]

\* C2: in a registered session test_runs holds one TestRun per finished
\* test, in finishing order, each a different object whose phases are the
\* phases built for that test, in order, and whose status is what those
\* phases alone leave.
C2_OneRecordPerFinishedTest ==
  registered =>
    /\ Len(test_runs) = Len(finished)
    /\ \A i \in 1..Len(test_runs) :
         /\ test_runs[i] \in 1..Len(runs)
         /\ runs[test_runs[i]].item = finished[i]
         /\ runs[test_runs[i]].phases = PhasesOf(finished[i])
         /\ Status(runs[test_runs[i]]) = StatusAfter(PhasesOf(finished[i]))
         /\ \A j \in 1..Len(test_runs) : i # j => test_runs[i] # test_runs[j]

C2_Witness ==
  /\ Len(test_runs) = 2
  /\ Len(runs[test_runs[1]].phases) = 2
  /\ runs[test_runs[1]].word = "PASSED"
  /\ Len(runs[test_runs[2]].phases) = 1
  /\ runs[test_runs[2]].word = ""

\* the session's end has run in a registered session
rendered == registered /\ pc \in {"finished", "failed"}

Ops(op) == LET is(c) == c.op = op IN SelectSeq(calls, is)

\* C3: pytest_sessionfinish renders the pairs (templates[i], paths[i]) for i
\* up to the shorter list's length and nothing beyond it: the i-th render
\* uses templates[i], the i-th write and finish use paths[i]; when it
\* returns it has made exactly min(len(templates), len(paths)) renders,
\* writes and finish calls, and it only raises when a render or a file
\* operation failed, never for the lengths.
C3_PairwiseTruncation ==
  rendered =>
    LET n == Min(Len(config.template), Len(config.report_path))
        r == Ops("render")
        w == Ops("write")
        f == Ops("finish")
    IN /\ Len(r) <= n /\ Len(w) <= Len(r) /\ Len(f) <= Len(w)
       /\ \A i \in 1..Len(r) : r[i].arg = config.template[i]
       /\ \A i \in 1..Len(w) : w[i].arg = config.report_path[i]
       /\ \A i \in 1..Len(f) : f[i].arg = config.report_path[i]
       /\ pc = "finished" => Len(r) = n /\ Len(w) = n /\ Len(f) = n
       /\ pc = "failed" => ~calls[Len(calls)].ok

C3_Witness ==
  /\ rendered /\ pc = "finished"
  /\ Len(config.template) = 2 /\ Len(config.report_path) = 1
  /\ Len(Ops("render")) = 1 /\ Len(Ops("finish")) = 1

\* the log entries of the j-th phase built
LogEntries(j) == lists[built[j].phase.log_records]

\* C4: a record logged after phase k was built and before phase k+1 was
\* built is in the log entries of phase k+1 and of no other phase, and the
\* log entries of a phase are in emission order.
C4_LogsGoToTheNextPhase ==
  /\ \A r \in 1..Len(logged) : \A j \in 1..Len(built) :
       logged[r].window >= 1 =>
         ((r \in Range(LogEntries(j))) <=> (j = logged[r].window + 1))
  /\ \A j \in 1..Len(built) : \A a, b \in 1..Len(LogEntries(j)) :
       a < b => LogEntries(j)[a] < LogEntries(j)[b]

C4_Witness ==
  /\ Len(built) >= 3
  /\ Len(logged) = 2
  /\ logged[1].window = 1 /\ logged[2].window = 1
  /\ LogEntries(2) = <<1, 2>>
  /\ LogEntries(3) = <<>>

\* the contexts the collaborators answer, in registration order
ContextsAsRegistered ==
  LET answers == [i \in 1..Len(pluginmanager) |-> pytest_reporter_context(pluginmanager[i])]
      answered(a) == a.type # "None"
  IN SelectSeq(answers, answered)

\* the merge of a sequence of mappings in which the later mapping wins
LaterWins(cs) ==
  [k \in UNION {DOMAIN cs[i].val : i \in 1..Len(cs)} |->
     cs[CHOOSE i \in 1..Len(cs) :
          /\ k \in DOMAIN cs[i].val
          /\ \A j \in (i + 1)..Len(cs) : k \notin DOMAIN cs[j].val].val[k]]

\* C5 as stated: the context is the merge of the collaborators' mappings in
\* registration order, the later collaborator winning.
C5_MergeInRegistrationOrder == rendered => ctx = LaterWins(ContextsAsRegistered)

\* C5: the context is the merge of the mappings in the order the dispatcher
\* returns them, a later answer replacing an earlier one and every other key
\* kept; the dispatcher calls the last registered collaborator first, so on
\* a key collision the earliest registered collaborator's value is kept.
C5_MergeInDispatchOrder == rendered => ctx = LaterWins(Reverse(ContextsAsRegistered))

C5_Witness ==
  /\ rendered
  /\ Len(config.collaborators) = 2
  /\ config.collaborators[1].context = PyDict([x |-> "1"])
  /\ config.collaborators[2].context = PyDict([x |-> "2", y |-> "3"])
  /\ DOMAIN ctx = {"config", "test_runs", "x", "y"}
  /\ ctx["x"] = "1" /\ ctx["y"] = "3"

\* C6: a worker session and a session without report path never register
\* the orchestrator: no log handler is installed, no TestRun is built or
\* appended, no extension point of the render pipeline is called and no
\* file is written; only a primary session with a report path renders.
C6_WorkerOrNoPathNeverRegisters ==
  /\ (config.slaveinput \/ config.report_path = <<>>) =>
       /\ ~registered
       /\ handlers = {}
       /\ test_runs = <<>> /\ runs = <<>> /\ lists = <<>>
       /\ calls = <<>> /\ fs = EmptyFS
       /\ pc \notin {"rendering", "failed"}
  /\ calls # <<>> => ~config.slaveinput /\ config.report_path # <<>>

C6_Witness ==
  /\ config.slaveinput /\ config.report_path # <<>>
  /\ pc = "finished"
  /\ finished = <<1, 2>>
  /\ host.when = 2

\* the classification answered a triple whose letter and word are empty
EmptyAnswer(res) ==
  /\ res.type # "None"
  /\ res.letter = ""
  /\ (IF res.word.type = "tuple" THEN res.word.val[1] ELSE res.word.val) = ""

Ancestors(p) == {p, Parent(p), Parent(Parent(p))}

\* C8: a write that succeeded leaves at its path a file holding exactly the
\* text rendered for that pair, whatever was there before (nothing, a file
\* of an earlier session, the file an earlier pair of this session wrote),
\* with its parent directories in place whether or not they existed; a
\* directory creation or a write only fails when a file stands where a
\* directory is needed or a directory stands at the output path.
C8_WriteOverwrites ==
  rendered =>
    LET r == Ops("render")
        w == Ops("write")
        last == calls[Len(calls)]
    IN /\ \A i \in 1..Len(w) :
            (w[i].ok /\ \A j \in (i + 1)..Len(w) : ~(w[j].ok /\ w[j].arg = w[i].arg)) =>
               /\ fs[w[i].arg] = File(<<r[i].arg>>)
               /\ \A a \in Ancestors(Parent(w[i].arg)) : fs[a] = Dir
       /\ (last.op = "mkdir" /\ ~last.ok) =>
            \E a \in Ancestors(last.arg) : fs0[a].kind = "file"
       /\ (last.op = "write" /\ ~last.ok) => fs0[last.arg].kind = "dir"
       /\ pc = "failed" => last.op \in {"render", "mkdir", "write"} /\ ~last.ok

C8_Witness ==
  /\ rendered /\ pc = "finished"
  /\ config.template = <<"t1", "t2">>
  /\ config.report_path = <<"out/sub/r", "out/sub/r">>
  /\ fs0["out/sub/r"] = OldFile
  /\ fs["out/sub/r"] = File(<<"t2">>)

RECURSIVE Concat(_)
Concat(ss) == IF ss = <<>> THEN <<>> ELSE Head(ss) \o Concat(Tail(ss))

\* the template-dir answers of the collaborators, in registration order
DirAnswersAsRegistered ==
  LET answers == [i \in 1..Len(pluginmanager) |->
                    pytest_reporter_template_dir(pluginmanager[i])]
      answered(a) == a.type # "None"
  IN SelectSeq(answers, answered)

\* the template-dir answers in the order the dispatcher returns them: the
\* plugin module's own first, then the collaborators', last registered first
DirAnswersAsDispatched ==
  LET cs == Reverse(config.collaborators)
      answers == [i \in 1..Len(cs) |-> cs[i].template_dir]
      answered(a) == a.type # "None"
  IN <<PyList(config.template_dir)>> \o SelectSeq(answers, answered)

\* what an answer contributes when every sequence of paths is flattened
PathsOfSequence(a) ==
  IF a.type \in {"list", "tuple"} THEN [i \in 1..Len(a.val) |-> PyStr(a.val[i])]
  ELSE <<a>>

\* what an answer contributes when only a list is flattened
PathsOfList(a) ==
  IF a.type = "list" THEN [i \in 1..Len(a.val) |-> PyStr(a.val[i])] ELSE <<a>>

\* C9 as stated: template_dirs is the flattening of the answers taken in
\* registration order, a single path contributing itself and a sequence of
\* paths each of its paths.
C9_FlattenInRegistrationOrder ==
  rendered =>
    template_dirs =
      Concat([i \in 1..Len(DirAnswersAsRegistered) |->
                PathsOfSequence(DirAnswersAsRegistered[i])])

\* C9: template_dirs is the concatenation, in the order the dispatcher
\* returns the answers (the plugin module's --template-dir list first, then
\* the collaborators last registered first), of the elements of each answer
\* that is a list and of each other answer (a single path, a tuple) as one
\* element; duplicates are kept and the environment is made from that list.
C9_FlattenListsInDispatchOrder ==
  rendered =>
    /\ template_dirs =
         Concat([i \in 1..Len(DirAnswersAsDispatched) |->
                   PathsOfList(DirAnswersAsDispatched[i])])
    /\ env.type = "env" => env.template_dirs = template_dirs

C9_Witness ==
  /\ rendered
  /\ config.template_dir = <<"d1", "d1">>
  /\ Len(config.collaborators) = 2
  /\ config.collaborators[1].template_dir = PyStr("d1")
  /\ config.collaborators[2].template_dir = PyTuple(<<"d1", "d2">>)
  /\ template_dirs = <<PyStr("d1"), PyStr("d1"), PyTuple(<<"d1", "d2">>), PyStr("d1")>>

\* C10 as stated: without an environment the session end aborts with a
\* failure, every render call fails, nothing is written and no finish
\* notification is fired.
C10_NoEnvironmentAborts ==
  (rendered /\ env.type = "None") =>
    /\ pc = "failed"
    /\ \A i \in 1..Len(Ops("render")) : ~Ops("render")[i].ok
    /\ Ops("write") = <<>> /\ Ops("finish") = <<>>
    /\ fs = fs0

\* C10: without an environment and with at least one (template, path) pair
\* the first render call fails with the unavailable-environment condition,
\* which leaves pytest_sessionfinish: no later render call is made, no
\* directory is created, no file is written and no finish notification is
\* fired; with no pair there is no render call and the session end returns.
C10_NoEnvironmentFirstRenderAborts ==
  (rendered /\ env.type = "None") =>
    /\ Ops("mkdir") = <<>> /\ Ops("write") = <<>> /\ Ops("finish") = <<>>
    /\ fs = fs0
    /\ IF Min(Len(config.template), Len(config.report_path)) > 0
         THEN /\ pc = "failed" /\ error = "UnavailableEnvironment"
              /\ Len(Ops("render")) = 1 /\ ~Ops("render")[1].ok
         ELSE pc = "finished" /\ Ops("render") = <<>>

C10_Witness ==
  /\ rendered /\ env.type = "None"
  /\ Len(config.template) = 2 /\ Len(config.report_path) = 2
  /\ pc = "failed" /\ error = "UnavailableEnvironment"
  /\ Len(Ops("render")) = 1

(***************************************************************************)
(* The calls of the render loop, after the four stages that come before    *)
(* it, and the pairs the loop walks.                                       *)
(***************************************************************************)
PairCalls == SubSeq(calls, 5, Len(calls))

Pairs == Zip(config.template, config.report_path)

PairSteps == <<"render", "mkdir", "write", "finish">>

OkWrites == SelectSeq(calls, LAMBDA x: x.op = "write" /\ x.ok)

\* C11: for each pair the steps are render, create the parent directories,
\* write, finish, in that order and with that pair's template and path; all
\* four steps of pair i come before the render of pair i+1; only the last
\* call of a session can fail; there is one finish per written output, right
\* after its write.
C11_PairStepsInOrder ==
  rendered =>
    /\ \A k \in 1..Len(PairCalls) :
         LET i == ((k - 1) \div 4) + 1
             step == ((k - 1) % 4) + 1
             x == PairCalls[k]
         IN /\ i <= Len(Pairs)
            /\ x.op = PairSteps[step]
            /\ x.arg = CASE step = 1 -> Pairs[i][1]
                         [] step = 2 -> Parent(Pairs[i][2])
                         [] OTHER -> Pairs[i][2]
            /\ k < Len(PairCalls) => x.ok
            /\ x.op = "finish" => /\ PairCalls[k - 1].op = "write"
                                  /\ PairCalls[k - 1].ok
                                  /\ PairCalls[k - 1].arg = x.arg
    /\ Len(Ops("finish")) = Len(OkWrites)

\* two pairs with different paths went through their four steps
C11_Witness ==
  /\ rendered
  /\ pc = "finished"
  /\ Len(PairCalls) = 8
  /\ Pairs[1][2] # Pairs[2][2]
  /\ Len(Ops("finish")) = 2

\* the pairs before the i-th whose path is p
EarlierWith(i, p) == {j \in 1..(i - 1) : Pairs[j][2] = p}

Max(S) == CHOOSE m \in S : \A n \in S : n <= m

\* C12: when a step of pair i fails, the failure leaves pytest_sessionfinish
\* (the session ends failed, with the exception): the failing call is the
\* last one, made once; pair i and the later pairs write no file and get no
\* finish; each earlier pair keeps its written file and its finish.
C12_FailureStopsTheLoop ==
  (rendered /\ \E k \in 1..Len(calls) : ~calls[k].ok) =>
    LET i == Len(Ops("render"))
    IN /\ pc = "failed"
       /\ error # ""
       /\ \A k \in 1..Len(calls) : ~calls[k].ok <=> k = Len(calls)
       /\ Len(PairCalls) \in (4 * (i - 1) + 1)..(4 * (i - 1) + 3)
       /\ Len(Ops("finish")) = i - 1
       /\ Len(OkWrites) = i - 1
       /\ \A j \in 1..(i - 1) :
            /\ fs[Pairs[j][2]] = File(<<Pairs[Max(EarlierWith(i, Pairs[j][2]))][1]>>)
            /\ Ops("finish")[j].arg = Pairs[j][2]
       /\ \A j \in i..Len(Pairs) :
            LET p == Pairs[j][2]
            IN (EarlierWith(i, p) = {} /\ fs[p] # fs0[p]) => fs[p] = Dir

\* the write of the second pair failed after the first pair was written
C12_Witness ==
  /\ rendered
  /\ pc = "failed"
  /\ error = "IsADirectoryError"
  /\ Len(Ops("render")) = 2
  /\ Len(Ops("finish")) = 1
  /\ fs[Pairs[1][2]] = File(<<Pairs[1][1]>>)
  /\ ~calls[Len(calls)].ok

\* where the host is while the handler is on the root logger
InstalledAt == {"session", "test", "crashed"}

\* C13: in a registered session the handler is on the root logger exactly
\* from pytest_sessionstart to the first statement of pytest_sessionfinish,
\* so it is off before the render pipeline makes its first call, also when
\* the pipeline fails; a record logged before session start, during the
\* pipeline or after it is not delivered and is in no list of the handler.
C13_SinkInstalledFromStartToEnd ==
  registered =>
    /\ "LogHandler" \in handlers <=> pc \in InstalledAt
    /\ calls # <<>> => "LogHandler" \notin handlers
    /\ \A r \in 1..Len(logged) :
         /\ logged[r].delivered <=> logged[r].at \in InstalledAt
         /\ logged[r].at \notin InstalledAt =>
              \A n \in 1..Len(lists) : r \notin Range(lists[n])

\* the pipeline failed; the record logged during the session is buffered,
\* the one logged during the pipeline is not
C13_Witness ==
  /\ registered
  /\ pc = "failed"
  /\ Len(logged) = 2
  /\ logged[1].at = "session" /\ logged[1].delivered
  /\ logged[2].at = "rendering" /\ ~logged[2].delivered
  /\ lists[_buffer] = <<1>>

\* C14: the log entries of a phase hold only records logged while a test was
\* in progress: no record logged outside every test (after session start
\* and before the first test, or between the logfinish of one test and the
\* protocol of the next) is in the log entries of a phase.
C14_OnlyOwnExecutionWindow ==
  \A j \in 1..Len(built) : \A r \in Range(LogEntries(j)) : logged[r].at = "test"

\* the delivered records logged after w phases were built, in emission order
DeliveredIn(w) ==
  SelectSeq([r \in 1..Len(logged) |-> r],
            LAMBDA r : logged[r].delivered /\ logged[r].window = w)

\* C14 (amended): the log entries of the j-th phase built are exactly the
\* records delivered since phase j-1 was built (since session start for the
\* first phase), in emission order, wherever the host was when they were
\* logged: inside the test or outside every test.
C14_RecordsSinceThePreviousPhase ==
  \A j \in 1..Len(built) : LogEntries(j) = DeliveredIn(j - 1)

\* a record logged before the first test is in the first phase of test 1 and
\* one logged between the two tests is in the first phase of test 2
C14_Witness ==
  /\ Len(logged) = 2
  /\ logged[1].at = "session" /\ logged[1].window = 0
  /\ logged[2].at = "session" /\ logged[2].window >= 1
  /\ Len(built) > logged[2].window
  /\ LogEntries(1) = <<1>>
  /\ LogEntries(logged[2].window + 1) = <<2>>
  /\ built[logged[2].window + 1].item = 2

Stages == <<"template_dir", "make_env", "modify_env", "context">>

\* C15: the calls of a session end start with the four stages template_dir,
\* make_env, modify_env, context, each made once; modify_env is handed the
\* environment make_env returned for the flattened directories; every
\* render and every finish comes after the four stages and is handed that
\* same environment and the one merged context.
C15_StagesOnceInOrder ==
  rendered =>
    /\ Len(calls) >= 4
    /\ \A n \in 1..4 : calls[n].op = Stages[n] /\ Len(Ops(Stages[n])) = 1
    /\ env = pytest_reporter_make_env(template_dirs, config)
    /\ calls[3].env = env
    /\ \A k \in 1..Len(calls) :
         calls[k].op \in {"render", "finish"} =>
           /\ k > 4
           /\ calls[k].env = env
           /\ calls[k].context = ctx

\* two renders and two finishes were handed the environment and the context
C15_Witness ==
  /\ rendered
  /\ Len(Ops("render")) = 2
  /\ Len(Ops("finish")) = 2
  /\ env # None
  /\ Ops("finish")[2].env = Ops("render")[1].env
  /\ Ops("finish")[2].context = Ops("render")[1].context
  /\ "test_runs" \in DOMAIN ctx

\* the phase the last report of the host was made into
LastPhase == runs[_active].phases[Len(runs[_active].phases)]

\* C16: the phase built from an answer of pytest_report_teststatus has the
\* answer's category and letter; when the answer's word is a (label, style)
\* pair the phase's word is the label and its style is the mapping, and
\* otherwise its word is the answer's word and its style is empty.
C16_PhaseStatusDerivation ==
  (registered /\ host.when > 0 /\ host.res # None) =>
    /\ Len(runs[_active].phases) = host.when
    /\ LastPhase.category = host.res.category
    /\ LastPhase.letter = host.res.letter
    /\ host.res.word.type = "tuple" =>
         /\ LastPhase.word = host.res.word.val[1]
         /\ LastPhase.style = host.res.word.val[2]
    /\ host.res.word.type # "tuple" =>
         /\ LastPhase.word = host.res.word.val
         /\ LastPhase.style = EmptyDict

\* a phase with a plain word was built, then one with a (label, style) word
C16_Witness ==
  /\ registered
  /\ host.when = 2
  /\ host.res = StatusTriple("failed", "F", PyTuple(<<"FAILED", [red |-> TRUE]>>))
  /\ runs[_active].phases[1].word = "PASSED"
  /\ runs[_active].phases[1].style = EmptyDict
  /\ LastPhase.word = "FAILED"
  /\ LastPhase.style = [red |-> TRUE]
  /\ LastPhase.category = "failed"

\* a phase report drained the buffer and then raised
PopThenRaised == registered /\ host.when > 0 /\ host.res = None

\* the pop_records calls made so far: one for each phase built and one for
\* the report that raised
Pops == Len(built) + (IF PopThenRaised THEN 1 ELSE 0)

\* the pop_records calls made before record r was logged
PopsBefore(r) == logged[r].window + (IF logged[r].at = "crashed" THEN 1 ELSE 0)

\* the delivered records logged after p pops and before the next
EmittedAfterPop(p) ==
  SelectSeq([r \in 1..Len(logged) |-> r],
            LAMBDA r : logged[r].delivered /\ PopsBefore(r) = p)

\* C17: the n-th pop_records returns, in emission order, exactly the records
\* emitted since pop n-1 (since construction for the first), and what it
\* returned stays that way whatever is emitted later; the buffer holds
\* exactly the records emitted since the last pop, so it is empty right
\* after a pop and a pop that follows another with no emit between returns
\* the empty sequence.
C17_PopReturnsRecordsSinceLastPop ==
  registered =>
    /\ Len(lists) = Pops + 1
    /\ _buffer = Pops + 1
    /\ \A n \in 1..Len(lists) : lists[n] = EmittedAfterPop(n - 1)
    /\ \A j \in 1..Len(built) : built[j].phase.log_records = j

\* the first pop returned record 1, the second pop followed with no emit
\* between and returned nothing, record 2 was emitted then and the third pop
\* returned it; what the first pop returned is still record 1
C17_Witness ==
  /\ registered
  /\ Pops >= 3
  /\ lists[1] = <<1>>
  /\ lists[2] = <<>>
  /\ lists[3] = <<2>>
  /\ lists[_buffer] = <<>>

\* a step of pytest_sessionfinish: removeHandler, or the render pipeline
SessionFinishStep ==
  \/ pc \in {"session", "crashed"} /\ pc' \in {"rendering", "finished"}
  \/ pc = "rendering" /\ pc' \in {"finished", "failed"}

\* C18: once pytest_configure has made it, template_context keeps its keys
\* and their bindings in every step; a step of pytest_sessionfinish leaves
\* test_runs and every TestRun in it unchanged; any other step changes
\* test_runs only by appending one TestRun at a logfinish.
C18_ContextFrame ==
  [][pc # "new" =>
       /\ template_context' = template_context
       /\ SessionFinishStep =>
            /\ test_runs' = test_runs
            /\ \A i \in 1..Len(test_runs) : runs'[test_runs[i]] = runs[test_runs[i]]
       /\ test_runs' # test_runs =>
            /\ pc = "test" /\ pc' = "session"
            /\ \E id \in 1..Len(runs) : test_runs' = Append(test_runs, id)]_vars

\* the pipeline ran over a context with two finished test runs
C18_Witness ==
  /\ rendered
  /\ pc = "finished"
  /\ Len(Ops("render")) = 1
  /\ Len(test_runs) = 2
  /\ DOMAIN template_context = {"config", "test_runs"}
  /\ DOMAIN ctx = {"config", "test_runs"}

\* C19: a TestRun that is in test_runs stays in its place there, and its
\* phases, category, letter, word and style are the same after every step.
C19_AppendedRunsAreFrozen ==
  [][/\ Len(test_runs') >= Len(test_runs)
     /\ \A i \in 1..Len(test_runs) :
          /\ test_runs'[i] = test_runs[i]
          /\ runs'[test_runs[i]] = runs[test_runs[i]]]_vars

\* the second test has gone through its phases, with another overall status
\* than the first test, whose record is in test_runs as logfinish left it
C19_Witness ==
  /\ registered
  /\ pc = "test"
  /\ Len(test_runs) = 1
  /\ host.item = 2 /\ host.when = 2
  /\ _active # test_runs[1]
  /\ Len(runs[_active].phases) = 2
  /\ Len(runs[test_runs[1]].phases) = 1
  /\ runs[_active].word = "PASSED"
  /\ runs[test_runs[1]].word = ""

\* the log entries of all phases in build order, followed by the buffer
PhaseLogsThenBuffer ==
  Concat([j \in 1..Len(built) |-> LogEntries(j)]) \o lists[_buffer]

\* record r was drained by the phase report that raised
Dropped(r) == PopThenRaised /\ logged[r].delivered /\ PopsBefore(r) = Len(built)

=============================================================================
